---- MODULE Spec2Model ----
(***************************************************************************)
(* Model of lunatik's cpustat library (lib/luacpustat.c): the registry     *)
(* cpu_usage_stat, luacpustat_get and luacpustat_count, run against the    *)
(* kernel's per-CPU kernel_cpustat counters, which the kernel's accounting *)
(* updates while a call is in progress.                                    *)
(*                                                                         *)
(* Integer widths are scaled down and kept distinct: lua_Integer and u64   *)
(* have LuaBits bits (64 in the source), int has IntBits bits (32 in the   *)
(* source), IntBits < LuaBits.                                             *)
(***************************************************************************)
EXTENDS Integers, Sequences, FiniteSets, TLC

\* ------------------------------------------------------------------ bounds
MaxCpus == 2        \* nr_cpu_ids ranges over 1..MaxCpus
LuaBits == 5        \* scaled width of lua_Integer and of u64
MaxTicks == 2       \* counter updates by the kernel's accounting per run
CallsPerRun == 1    \* calls per run when every argument is tried
NumCallers == 2     \* Lua runtimes able to call the library

IntBits == LuaBits - 2      \* scaled width of int, narrower than lua_Integer
MaxCalls == MaxCpus + 1     \* calls per run in a sequence: the aggregate and every CPU

RECURSIVE Pow2(_)
Pow2(n) == IF n = 0 THEN 1 ELSE 2 * Pow2(n - 1)

U64Mod == Pow2(LuaBits)             \* 2^64: u64 arithmetic is modulo this
LuaHalf == Pow2(LuaBits - 1)        \* 2^63: lua_Integer is -2^63 .. 2^63-1
IntMod == Pow2(IntBits)             \* 2^32
IntHalf == Pow2(IntBits - 1)        \* 2^31: int is -2^31 .. 2^31-1

LuaIntegers == (0 - LuaHalf)..(LuaHalf - 1)

\* --------------------------------------------------- C integer conversions
\* (int)x for a lua_Integer x: the low IntBits bits, two's complement.
ToInt(x) ==
    LET low == x % IntMod
    IN  IF low >= IntHalf THEN low - IntMod ELSE low

\* (lua_Integer)v for a u64 v: the same bits read as a signed integer.
ToLuaInteger(v) == IF v >= LuaHalf THEN v - U64Mod ELSE v

\* u64 addition, as in stats[idx] += ...
U64Add(a, b) == (a + b) % U64Mod

\* Integer addition in the Lua runtime (wraps around in two's complement).
LuaAdd(a, b) == ToLuaInteger((a + b) % U64Mod)

\* ------------------------------------------------ enum cpu_usage_stat
CPUTIME_USER == 0
CPUTIME_NICE == 1
CPUTIME_SYSTEM == 2
CPUTIME_SOFTIRQ == 3
CPUTIME_IRQ == 4
CPUTIME_IDLE == 5
CPUTIME_IOWAIT == 6
CPUTIME_STEAL == 7
CPUTIME_GUEST == 8
CPUTIME_GUEST_NICE == 9
CPUTIME_FORCEIDLE == 10

\* NR_STATS: the enum's last member; FORCEIDLE exists under CONFIG_SCHED_CORE.
NR_STATS(sc) == IF sc THEN 11 ELSE 10

\* -------------------------------------------------- registry (ASCII names)
\* Names are sequences of ASCII codes, so that the lowercase conversion is
\* the arithmetic the code performs.
cpu_usage_stat_base ==
    << [name |-> <<85, 83, 69, 82>>,                         value |-> CPUTIME_USER],
       [name |-> <<78, 73, 67, 69>>,                         value |-> CPUTIME_NICE],
       [name |-> <<83, 89, 83, 84, 69, 77>>,                 value |-> CPUTIME_SYSTEM],
       [name |-> <<83, 79, 70, 84, 73, 82, 81>>,             value |-> CPUTIME_SOFTIRQ],
       [name |-> <<73, 82, 81>>,                             value |-> CPUTIME_IRQ],
       [name |-> <<73, 68, 76, 69>>,                         value |-> CPUTIME_IDLE],
       [name |-> <<73, 79, 87, 65, 73, 84>>,                 value |-> CPUTIME_IOWAIT],
       [name |-> <<83, 84, 69, 65, 76>>,                     value |-> CPUTIME_STEAL],
       [name |-> <<71, 85, 69, 83, 84>>,                     value |-> CPUTIME_GUEST],
       [name |-> <<71, 85, 69, 83, 84, 95, 78, 73, 67, 69>>, value |-> CPUTIME_GUEST_NICE] >>

cpu_usage_stat_forceidle ==
    << [name |-> <<70, 79, 82, 67, 69, 73, 68, 76, 69>>,     value |-> CPUTIME_FORCEIDLE] >>

\* The table as compiled with (sc) or without CONFIG_SCHED_CORE; the
\* {NULL, 0} terminator is the end of the sequence.
cpu_usage_stat(sc) ==
    IF sc THEN cpu_usage_stat_base \o cpu_usage_stat_forceidle
          ELSE cpu_usage_stat_base

\* sizeof(field_name)
FieldNameSize == 32

\* Mutant of LowerChar: +32 without the 'A'..'Z' test.
LowerCharUnguarded(ch) == ch + 32

\* One character of the conversion loop: 'A'..'Z' gets +32.
LowerChar(ch) == IF ch >= 65 /\ ch <= 90 THEN ch + 32 ELSE ch

\* The conversion loop: copies while *src and fewer than sizeof - 1 written.
FieldName(src) ==
    LET n == IF Len(src) < FieldNameSize - 1 THEN Len(src) ELSE FieldNameSize - 1
    IN  [j \in 1..n |-> LowerChar(src[j])]

\* ------------------------------------------------------------------ state
VARIABLES
    nr_cpu_ids,       \* kernel: number of possible CPU ids (fixed at boot)
    sched_core,       \* build: CONFIG_SCHED_CORE
    cpu_online_mask,  \* kernel: CPUs currently online
    kcpustat,         \* kernel: kcpustat[p][idx], per-CPU kernel_cpustat.cpustat[]
    nticks,           \* counter updates so far (bounded by MaxTicks)
    pc,               \* per caller: position inside luacpustat_get
    args,             \* per caller: the Lua argument list of the call in progress
    i,                \* per caller: local `int i` of for_each_possible_cpu
    stats,            \* per caller: local `u64 stats[NR_STATS]`
    ret,              \* per caller: outcome of the last completed call
    prev,             \* per caller: the outcome before ret, when that was a table
    ncalls,           \* per caller: calls made so far (bounded per specification)
    dirty,            \* per caller: a counter changed since the last call began
    quiet,            \* outcomes of get calls run entirely since the last counter change
    seen,             \* per caller: the per-CPU structures its last get read, in order
    start             \* per caller: the true sums when its last aggregate get began

vars == << nr_cpu_ids, sched_core, cpu_online_mask, kcpustat, nticks,
           pc, args, i, stats, ret, prev, ncalls, dirty, quiet, seen, start >>

kernel == << nr_cpu_ids, sched_core, cpu_online_mask, kcpustat >>

Callers == 1..NumCallers

\* The callers that run in the sequential specification.
SeqCallers == {1}

\* The integers passed to get: around the valid range, at the edges of int
\* and at the edges of lua_Integer.
ArgIntegers ==
    ((0 - 2)..MaxCpus)
        \cup {IntHalf, IntMod, 0 - IntMod, LuaHalf - 1, 0 - LuaHalf}

\* Lua argument lists: get() and get(p).
ArgLists == { << >> } \cup { <<p>> : p \in ArgIntegers }

\* The argument lists of a script that samples the aggregate and the CPUs.
SampleArgLists == { << >> } \cup { <<p>> : p \in 0..(MaxCpus - 1) }

\* cpu_possible_mask: the ids below nr_cpu_ids.
cpu_possible_mask == 0..(nr_cpu_ids - 1)

StatIdx == 0..(NR_STATS(sched_core) - 1)

\* Outcome of a call as the Lua caller sees it: a table, an error carrying
\* the two numbers of its message, or count's integer.
NoOutcome == [kind |-> "none", args |-> << >>, target |-> 0, table |-> << >>,
              cpu |-> 0, max |-> 0, value |-> 0]

\* Initial counter vectors: CPU p's cpustat[idx] = base + p + idx, so that
\* the fields of a CPU hold different values and the CPUs differ; the bases
\* put all values far below 2^63, or from 2^63 - 1 upwards.
Bases == {1, LuaHalf - 1}

Init ==
    /\ nr_cpu_ids \in 1..MaxCpus
    /\ sched_core \in BOOLEAN
    /\ cpu_online_mask = 0..(nr_cpu_ids - 1)
    /\ \E b \in Bases :
          kcpustat = [p \in 0..(nr_cpu_ids - 1) |->
                         [k \in 0..(NR_STATS(sched_core) - 1) |-> b + p + k]]
    /\ nticks = 0
    /\ pc = [c \in Callers |-> "idle"]
    /\ args = [c \in Callers |-> << >>]
    /\ i = [c \in Callers |-> 0]
    /\ stats = [c \in Callers |-> [k \in 0..(NR_STATS(sched_core) - 1) |-> 0]]
    /\ ret = [c \in Callers |-> NoOutcome]
    /\ prev = [c \in Callers |-> NoOutcome]
    /\ ncalls = [c \in Callers |-> 0]
    /\ dirty = [c \in Callers |-> FALSE]
    /\ quiet = {}
    /\ seen = [c \in Callers |-> << >>]
    /\ start = [c \in Callers |-> << >>]

\* ------------------------------------------------------- Lua API helpers
\* luaL_optinteger(L, 1, def): the argument, or def when it is absent.
luaL_optinteger(a, def) == IF Len(a) < 1 THEN def ELSE a[1]

\* lua_pushinteger(L, (lua_Integer)v) for a u64 v.
lua_pushinteger(v) == ToLuaInteger(v)

\* lua_setfield(L, table, k): t[k] = v, replacing an existing key.
lua_setfield(t, k, v) ==
    [x \in (DOMAIN t) \cup {k} |-> IF x = k THEN v ELSE t[x]]

\* ----------------------------------------------- luacpustat_get, by parts
\* int cpu = luaL_optinteger(L, 1, -1);
CpuArg(a) == ToInt(luaL_optinteger(a, -1))

\* Mutant of memset_stats: the array is left as the previous call left it.
memset_stats_missing(st) == st

\* memset(stats, 0, sizeof(stats))
memset_stats(st) == [k \in DOMAIN st |-> 0]

\* for (stat_idx ...) stats[cputime_idx] = kcs.cpustat[cputime_idx];
RECURSIVE CopyStats(_, _, _, _)
CopyStats(reg, st, k, n) ==
    IF n > Len(reg) THEN st
    ELSE CopyStats(reg, [st EXCEPT ![reg[n].value] = k[reg[n].value]], k, n + 1)

\* for (stat_idx ...) stats[cputime_idx] += kcs.cpustat[cputime_idx];
RECURSIVE AddStats(_, _, _, _)
AddStats(reg, st, k, n) ==
    IF n > Len(reg) THEN st
    ELSE AddStats(reg,
                  [st EXCEPT ![reg[n].value] = U64Add(st[reg[n].value], k[reg[n].value])],
                  k, n + 1)

\* for (stat_idx ...) { lowercase the name; lua_pushinteger; lua_setfield }
RECURSIVE SetFields(_, _, _, _)
SetFields(reg, st, t, n) ==
    IF n > Len(reg) THEN t
    ELSE SetFields(reg, st,
                   lua_setfield(t, FieldName(reg[n].name), lua_pushinteger(st[reg[n].value])),
                   n + 1)

\* lua_createtable and the marshalling loop.
ResultTable(st) == SetFields(cpu_usage_stat(sched_core), st, << >>, 1)

\* Mutant of kcpustat_cpu: the structure of the boot CPU, whatever p is.
kcpustat_boot_cpu(p) == kcpustat[0]

\* kcs = kcpustat_cpu(p): a copy of the per-CPU structure of CPU p.  The
\* copy is taken in one step: every property checked is per field.
kcpustat_cpu(p) == kcpustat[p]

\* for_each_possible_cpu: the first id of cpu_possible_mask.
FirstPossibleCpu == CHOOSE q \in cpu_possible_mask : \A r \in cpu_possible_mask : q <= r

\* Mutant of NextPossibleCpu: for_each_online_cpu.
NextOnlineCpu(p) ==
    IF \E q \in cpu_online_mask : q > p
    THEN CHOOSE q \in cpu_online_mask :
            q > p /\ \A r \in cpu_online_mask : r > p => q <= r
    ELSE nr_cpu_ids

\* for_each_possible_cpu: the next id in cpu_possible_mask above p, or
\* nr_cpu_ids when there is none.
NextPossibleCpu(p) ==
    IF \E q \in cpu_possible_mask : q > p
    THEN CHOOSE q \in cpu_possible_mask :
            q > p /\ \A r \in cpu_possible_mask : r > p => q <= r
    ELSE nr_cpu_ids

\* if (cpu >= nr_cpu_ids), for a cpu that is >= 0.
InvalidCpu(n) == n >= nr_cpu_ids

\* Mutant of ErrorMax: the message reports nr_cpu_ids.
ErrorMaxIsCount == nr_cpu_ids

\* The second %d of the error message.
ErrorMax == nr_cpu_ids - 1

\* What the call addresses, as the code decides it: a CPU id, or -1 for
\* the aggregate.
Target(a) == IF CpuArg(a) >= 0 THEN CpuArg(a) ELSE 0 - 1

\* luaL_error(L, "invalid CPU number: %d (max: %d)", cpu, nr_cpu_ids - 1)
ErrorOutcome(a) ==
    [kind |-> "error", args |-> a, target |-> Target(a), table |-> << >>,
     cpu |-> CpuArg(a), max |-> ErrorMax, value |-> 0]

\* return 1 with the table on the stack.
TableOutcome(a, t) ==
    [kind |-> "table", args |-> a, target |-> Target(a), table |-> t,
     cpu |-> 0, max |-> 0, value |-> 0]

\* Mutant of Frame: `static u64 stats[NR_STATS]`, one array for every caller.
StaticFrame(c) == 1

\* u64 stats[NR_STATS] is an automatic variable: each call has its own, in
\* the stack frame of the caller's thread.
Frame(c) == c

\* The structure of CPU p as a call read it (record of the reads of a call).
Read(p) == [cpu |-> p, cpustat |-> kcpustat[p]]

\* The sums of every counter over the possible CPUs, in the integers, at
\* this moment.
RECURSIVE TrueSum(_, _)
TrueSum(k, n) == IF n = 0 THEN 0 ELSE TrueSum(k, n - 1) + kcpustat[n - 1][k]

TrueSums == [k \in 0..(NR_STATS(sched_core) - 1) |-> TrueSum(k, nr_cpu_ids)]

\* The call of caller c returns outcome r.
Return(c, r) ==
    /\ ret' = [ret EXCEPT ![c] = r]
    /\ prev' = [prev EXCEPT ![c] = IF ret[c].kind = "table"
                                   THEN [ret[c] EXCEPT !.args = << >>]
                                   ELSE NoOutcome]
    /\ pc' = [pc EXCEPT ![c] = "idle"]
    /\ i' = [i EXCEPT ![c] = 0]

\* The call of caller c returns the table built from st; st stays behind in
\* the dead stack frame.  A call that saw no counter change is recorded in
\* quiet.
ReturnTable(c, a, st, clean) ==
    LET t == ResultTable(st)
    IN  /\ Return(c, TableOutcome(a, t))
        /\ stats' = [stats EXCEPT ![Frame(c)] = st]
        /\ quiet' = IF clean THEN quiet \cup {[target |-> Target(a), table |-> t]}
                    ELSE quiet

\* luacpustat_get(L) up to its first read of the counters.  Everything
\* between two reads is local to the call, so it is taken together with
\* the read that precedes it.
GetEnter(c, a, n) ==
    /\ pc[c] = "idle"
    /\ ncalls[c] < n
    /\ ncalls' = [ncalls EXCEPT ![c] = @ + 1]
    /\ args' = [args EXCEPT ![c] = a]
    /\ dirty' = [dirty EXCEPT ![c] = FALSE]
    /\ LET zero == memset_stats(stats[Frame(c)])
       IN  \/ /\ CpuArg(a) >= 0
              /\ InvalidCpu(CpuArg(a))
              /\ Return(c, ErrorOutcome(a))
              /\ stats' = [stats EXCEPT ![Frame(c)] = zero]
              /\ seen' = [seen EXCEPT ![c] = << >>]
              /\ start' = [start EXCEPT ![c] = << >>]
              /\ UNCHANGED quiet
           \/ /\ CpuArg(a) >= 0
              /\ ~InvalidCpu(CpuArg(a))
              /\ seen' = [seen EXCEPT ![c] = << Read(CpuArg(a)) >>]
              /\ start' = [start EXCEPT ![c] = << >>]
              /\ ReturnTable(c, a,
                    CopyStats(cpu_usage_stat(sched_core), zero,
                              kcpustat_cpu(CpuArg(a)), 1),
                    TRUE)
           \/ /\ CpuArg(a) < 0
              /\ seen' = [seen EXCEPT ![c] = << Read(FirstPossibleCpu) >>]
              /\ start' = [start EXCEPT ![c] = TrueSums]
              /\ LET first == FirstPossibleCpu
                     sum == AddStats(cpu_usage_stat(sched_core), zero,
                                     kcpustat_cpu(first), 1)
                 IN  IF NextPossibleCpu(first) < nr_cpu_ids
                     THEN /\ pc' = [pc EXCEPT ![c] = "sum"]
                          /\ i' = [i EXCEPT ![c] = NextPossibleCpu(first)]
                          /\ stats' = [stats EXCEPT ![Frame(c)] = sum]
                          /\ UNCHANGED << ret, prev, quiet >>
                     ELSE ReturnTable(c, a, sum, TRUE)
    /\ UNCHANGED << kernel, nticks >>

\* One further iteration of for_each_possible_cpu; the last one returns.
GetSumCpu(c) ==
    /\ pc[c] = "sum"
    /\ seen' = [seen EXCEPT ![c] = Append(@, Read(i[c]))]
    /\ LET sum == AddStats(cpu_usage_stat(sched_core), stats[Frame(c)],
                           kcpustat_cpu(i[c]), 1)
       IN  IF NextPossibleCpu(i[c]) < nr_cpu_ids
           THEN /\ i' = [i EXCEPT ![c] = NextPossibleCpu(i[c])]
                /\ stats' = [stats EXCEPT ![Frame(c)] = sum]
                /\ UNCHANGED << pc, ret, prev, quiet >>
           ELSE ReturnTable(c, args[c], sum, ~dirty[c])
    /\ UNCHANGED << kernel, nticks, args, ncalls, dirty, start >>

\* luacpustat_get(L), called by a script that makes n calls with argument
\* lists from A.
luacpustat_get(c, A, n) ==
    \/ \E a \in A : GetEnter(c, a, n)
    \/ GetSumCpu(c)

\* Mutant of CountValue: num_online_cpus().
CountOnlineCpus == Cardinality(cpu_online_mask)

\* lua_pushinteger(L, (lua_Integer)nr_cpu_ids)
CountValue == nr_cpu_ids

\* luacpustat_count(L)
luacpustat_count(c, n) ==
    /\ pc[c] = "idle"
    /\ ncalls[c] < n
    /\ ncalls' = [ncalls EXCEPT ![c] = @ + 1]
    /\ Return(c, [kind |-> "count", args |-> << >>, target |-> 0, table |-> << >>,
                  cpu |-> 0, max |-> 0, value |-> CountValue])
    /\ UNCHANGED << kernel, nticks, args, stats, dirty, quiet, seen, start >>

\* ------------------------------------------------------------ environment
\* The counters the modelled accounting updates, and by how much.
TickedStats == {CPUTIME_USER}
TickDeltas == {1}

\* The kernel's accounting adds d to one counter of an online CPU.  Counters
\* only increase: an update that would wrap the u64 is not taken.
Tick(p, k, d) ==
    /\ nticks < MaxTicks
    /\ p \in cpu_online_mask
    /\ kcpustat[p][k] + d < U64Mod
    /\ kcpustat' = [kcpustat EXCEPT ![p][k] = @ + d]
    /\ nticks' = nticks + 1
    /\ dirty' = [c \in Callers |-> TRUE]
    /\ quiet' = {}
    /\ UNCHANGED << nr_cpu_ids, sched_core, cpu_online_mask,
                    pc, args, i, stats, ret, prev, ncalls, seen, start >>

\* The CPU that is taken offline and brought back: the last possible one,
\* unless it is the boot CPU.
HotplugCpus == {nr_cpu_ids - 1} \ {0}

\* CPU hotplug: a possible CPU other than the boot CPU goes offline or online.
Hotplug(p) ==
    /\ p \in HotplugCpus
    /\ cpu_online_mask' = IF p \in cpu_online_mask
                          THEN cpu_online_mask \ {p}
                          ELSE cpu_online_mask \cup {p}
    /\ UNCHANGED << nr_cpu_ids, sched_core, kcpustat, nticks,
                    pc, args, i, stats, ret, prev, ncalls, dirty, quiet,
                    seen, start >>

Environment ==
    \/ \E p \in cpu_possible_mask, k \in TickedStats, d \in TickDeltas : Tick(p, k, d)
    \/ \E p \in cpu_possible_mask : Hotplug(p)

\* One caller, every argument, CallsPerRun calls.
Next ==
    \/ \E c \in SeqCallers : luacpustat_get(c, ArgLists, CallsPerRun)
    \/ \E c \in SeqCallers : luacpustat_count(c, CallsPerRun)
    \/ Environment

Spec == Init /\ [][Next]_vars

\* One caller that may start with count() and then samples the aggregate
\* and the CPUs, MaxCalls calls in all.
NextSeq ==
    \/ \E c \in SeqCallers : luacpustat_get(c, SampleArgLists, MaxCalls)
    \/ \E c \in SeqCallers : luacpustat_count(c, 1)
    \/ Environment

SpecSeq == Init /\ [][NextSeq]_vars

\* The argument lists of concurrent callers: the aggregate, whose reads other
\* steps can come between, and the get of one CPU.
ConcArgLists == { << >>, <<0>> }

\* Caller c may begin or continue its call: the callers are numbered in the
\* order in which their calls begin.
InOrder(c) == \A d \in 1..(c - 1) : ncalls[d] > 0

\* Several callers, each in its own runtime and thread, each calling get
\* once while the others' calls and the kernel's accounting run.
NextConc ==
    \/ \E c \in Callers : InOrder(c) /\ luacpustat_get(c, ConcArgLists, 1)
    \/ \E p \in cpu_possible_mask, k \in TickedStats, d \in TickDeltas : Tick(p, k, d)

SpecConc == Init /\ [][NextConc]_vars

\* ------------------------------------- luacpustat_get with one local per field
\* The variant of luacpustat_get that has no registry: ten u64 locals, one
\* statement per field, reading through a pointer to the per-CPU structure.
\* Mutant of HardcodedCopy: irq and softirq read from each other's slot.
HardcodedCopySwapped(p) ==
    [user       |-> kcpustat[p][CPUTIME_USER],
     nice       |-> kcpustat[p][CPUTIME_NICE],
     system     |-> kcpustat[p][CPUTIME_SYSTEM],
     idle       |-> kcpustat[p][CPUTIME_IDLE],
     iowait     |-> kcpustat[p][CPUTIME_IOWAIT],
     irq        |-> kcpustat[p][CPUTIME_SOFTIRQ],
     softirq    |-> kcpustat[p][CPUTIME_IRQ],
     steal      |-> kcpustat[p][CPUTIME_STEAL],
     guest      |-> kcpustat[p][CPUTIME_GUEST],
     guest_nice |-> kcpustat[p][CPUTIME_GUEST_NICE]]

\* kcpustat = &kcpustat_cpu(cpu); user = kcpustat->cpustat[CPUTIME_USER]; ...
HardcodedCopy(p) ==
    [user       |-> kcpustat[p][CPUTIME_USER],
     nice       |-> kcpustat[p][CPUTIME_NICE],
     system     |-> kcpustat[p][CPUTIME_SYSTEM],
     idle       |-> kcpustat[p][CPUTIME_IDLE],
     iowait     |-> kcpustat[p][CPUTIME_IOWAIT],
     irq        |-> kcpustat[p][CPUTIME_IRQ],
     softirq    |-> kcpustat[p][CPUTIME_SOFTIRQ],
     steal      |-> kcpustat[p][CPUTIME_STEAL],
     guest      |-> kcpustat[p][CPUTIME_GUEST],
     guest_nice |-> kcpustat[p][CPUTIME_GUEST_NICE]]

\* user = nice = system = ... = guest_nice = 0;
HardcodedZero ==
    [user |-> 0, nice |-> 0, system |-> 0, idle |-> 0, iowait |-> 0,
     irq |-> 0, softirq |-> 0, steal |-> 0, guest |-> 0, guest_nice |-> 0]

\* kcpustat = &kcpustat_cpu(i); user += kcpustat->cpustat[CPUTIME_USER]; ...
HardcodedAdd(loc, p) ==
    [user       |-> U64Add(loc.user,       kcpustat[p][CPUTIME_USER]),
     nice       |-> U64Add(loc.nice,       kcpustat[p][CPUTIME_NICE]),
     system     |-> U64Add(loc.system,     kcpustat[p][CPUTIME_SYSTEM]),
     idle       |-> U64Add(loc.idle,       kcpustat[p][CPUTIME_IDLE]),
     iowait     |-> U64Add(loc.iowait,     kcpustat[p][CPUTIME_IOWAIT]),
     irq        |-> U64Add(loc.irq,        kcpustat[p][CPUTIME_IRQ]),
     softirq    |-> U64Add(loc.softirq,    kcpustat[p][CPUTIME_SOFTIRQ]),
     steal      |-> U64Add(loc.steal,      kcpustat[p][CPUTIME_STEAL]),
     guest      |-> U64Add(loc.guest,      kcpustat[p][CPUTIME_GUEST]),
     guest_nice |-> U64Add(loc.guest_nice, kcpustat[p][CPUTIME_GUEST_NICE])]

\* for_each_possible_cpu(i) { ... }, from CPU p on.
RECURSIVE HardcodedSum(_, _)
HardcodedSum(loc, p) ==
    IF p >= nr_cpu_ids THEN loc
    ELSE HardcodedSum(HardcodedAdd(loc, p), NextPossibleCpu(p))

\* lua_createtable(L, 0, nrec) and the ten lua_pushinteger / lua_setfield
\* pairs, in the order of the source; the keys are the string literals.
HardcodedTable(loc) ==
    LET t1  == lua_setfield(<< >>, <<117, 115, 101, 114>>, lua_pushinteger(loc.user))
        t2  == lua_setfield(t1, <<110, 105, 99, 101>>, lua_pushinteger(loc.nice))
        t3  == lua_setfield(t2, <<115, 121, 115, 116, 101, 109>>, lua_pushinteger(loc.system))
        t4  == lua_setfield(t3, <<105, 100, 108, 101>>, lua_pushinteger(loc.idle))
        t5  == lua_setfield(t4, <<105, 111, 119, 97, 105, 116>>, lua_pushinteger(loc.iowait))
        t6  == lua_setfield(t5, <<105, 114, 113>>, lua_pushinteger(loc.irq))
        t7  == lua_setfield(t6, <<115, 111, 102, 116, 105, 114, 113>>,
                            lua_pushinteger(loc.softirq))
        t8  == lua_setfield(t7, <<115, 116, 101, 97, 108>>, lua_pushinteger(loc.steal))
        t9  == lua_setfield(t8, <<103, 117, 101, 115, 116>>, lua_pushinteger(loc.guest))
        t10 == lua_setfield(t9, <<103, 117, 101, 115, 116, 95, 110, 105, 99, 101>>,
                            lua_pushinteger(loc.guest_nice))
    IN  t10

\* The whole function on argument list a, run against the present counters.
HardcodedGet(a) ==
    LET cpu == ToInt(luaL_optinteger(a, 0 - 1))
    IN  IF cpu >= 0
        THEN IF cpu >= nr_cpu_ids
             THEN [kind |-> "error", cpu |-> cpu, max |-> nr_cpu_ids - 1, table |-> << >>]
             ELSE [kind |-> "table", cpu |-> 0, max |-> 0,
                   table |-> HardcodedTable(HardcodedCopy(cpu))]
        ELSE [kind |-> "table", cpu |-> 0, max |-> 0,
              table |-> HardcodedTable(HardcodedSum(HardcodedZero, FirstPossibleCpu))]

\* ================================================================ claims
\* The documented result fields (doc comment of get, and README): lowercase
\* name, as ASCII codes, and the counter it reports.
DocumentedFields ==
    << [name |-> <<117, 115, 101, 114>>,                          index |-> CPUTIME_USER],
       [name |-> <<110, 105, 99, 101>>,                           index |-> CPUTIME_NICE],
       [name |-> <<115, 121, 115, 116, 101, 109>>,                index |-> CPUTIME_SYSTEM],
       [name |-> <<105, 100, 108, 101>>,                          index |-> CPUTIME_IDLE],
       [name |-> <<105, 111, 119, 97, 105, 116>>,                 index |-> CPUTIME_IOWAIT],
       [name |-> <<105, 114, 113>>,                               index |-> CPUTIME_IRQ],
       [name |-> <<115, 111, 102, 116, 105, 114, 113>>,           index |-> CPUTIME_SOFTIRQ],
       [name |-> <<115, 116, 101, 97, 108>>,                      index |-> CPUTIME_STEAL],
       [name |-> <<103, 117, 101, 115, 116>>,                     index |-> CPUTIME_GUEST],
       [name |-> <<103, 117, 101, 115, 116, 95, 110, 105, 99, 101>>,
                                                                  index |-> CPUTIME_GUEST_NICE] >>

ForceidleField ==
    << [name |-> <<102, 111, 114, 99, 101, 105, 100, 108, 101>>,  index |-> CPUTIME_FORCEIDLE] >>

\* The fields expected of the active registry.
ExpectedFields == IF sched_core THEN DocumentedFields \o ForceidleField ELSE DocumentedFields

ExpectedKeys == { ExpectedFields[n].name : n \in 1..Len(ExpectedFields) }

\* Caller c's last completed call was a get (it returned a table or raised).
GotGet(c) == ret[c].kind \in {"table", "error"}

\* Caller c's last completed call was get(p) with an integer argument p.
GotGetOf(c) == GotGet(c) /\ Len(ret[c].args) = 1

\* Caller c is between calls and no counter changed since its last call began.
Undisturbed(c) == pc[c] = "idle" /\ ~dirty[c]

\* ---------------------------------------------------------------- C1
\* C1: for every lua_Integer p >= count(), get(p) raises the out-of-range
\* error and returns no table.
C1_OutOfRangeAlwaysFails ==
    \A c \in Callers :
        (GotGetOf(c) /\ ret[c].args[1] >= nr_cpu_ids) => ret[c].kind = "error"

C3_SingleCpuMapping ==
    \A c \in Callers :
        (GotGetOf(c) /\ ret[c].args[1] >= 0 /\ ret[c].args[1] < nr_cpu_ids) =>
            /\ ret[c].kind = "table"
            /\ Undisturbed(c) =>
                 \A n \in 1..Len(ExpectedFields) :
                    /\ ExpectedFields[n].name \in DOMAIN ret[c].table
                    /\ ret[c].table[ExpectedFields[n].name]
                         = ToLuaInteger(kcpustat[ret[c].args[1]][ExpectedFields[n].index])

\* get(p) has returned for the last CPU of a multi-processor system whose
\* counters differ from the boot CPU's.
C3_Witness ==
    \E c \in Callers :
        /\ Undisturbed(c)
        /\ ret[c].kind = "table"
        /\ nr_cpu_ids > 1
        /\ ret[c].args = <<nr_cpu_ids - 1>>
        /\ kcpustat[nr_cpu_ids - 1] # kcpustat[0]

\* ---------------------------------------------------------------- C4
\* Sum modulo 2^64 of counter k over every possible CPU.
RECURSIVE SumPossible(_, _)
SumPossible(k, n) ==
    IF n = 0 THEN 0 ELSE U64Add(SumPossible(k, n - 1), kcpustat[n - 1][k])

\* C4: get() and get(p) for every negative p return, for every field, the
\* sum modulo 2^64 of that field over all possible CPUs.
C4_NegativeArgumentAggregates ==
    \A c \in Callers :
        (GotGet(c) /\ Undisturbed(c)
            /\ (Len(ret[c].args) = 0 \/ ret[c].args[1] < 0)) =>
            /\ ret[c].kind = "table"
            /\ \A n \in 1..Len(ExpectedFields) :
                  /\ ExpectedFields[n].name \in DOMAIN ret[c].table
                  /\ ret[c].table[ExpectedFields[n].name]
                       = ToLuaInteger(SumPossible(ExpectedFields[n].index, nr_cpu_ids))

\* ---------------------------------------------------------------- C5
\* C5: every table get returns has exactly the lowercase registry names as
\* keys: the ten documented ones, and forceidle iff CONFIG_SCHED_CORE.
C5_KeySetExact ==
    \A c \in Callers :
        ret[c].kind = "table" =>
            /\ DOMAIN ret[c].table = ExpectedKeys
            /\ Cardinality(DOMAIN ret[c].table) = Len(cpu_usage_stat(sched_core))
            /\ Cardinality(DOMAIN ret[c].table) = IF sched_core THEN 11 ELSE 10

\* A table with the forceidle key has been returned on a build with the
\* forced-idle row.
C5_Witness ==
    \E c \in Callers :
        /\ sched_core
        /\ ret[c].kind = "table"
        /\ ForceidleField[1].name \in DOMAIN ret[c].table

\* ---------------------------------------------------------------- C6
\* C6: every value of a returned table is non-negative.
C6_ValuesNonNegative ==
    \A c \in Callers :
        ret[c].kind = "table" =>
            \A f \in DOMAIN ret[c].table : ret[c].table[f] >= 0

\* ---------------------------------------------------------------- C7
\* C7: counters only increase (Tick), and two sequential gets of the same
\* target satisfy second.f >= first.f for every field f.
C7_Monotone ==
    \A c \in Callers :
        (ret[c].kind = "table" /\ prev[c].kind = "table"
            /\ ret[c].target = prev[c].target) =>
            \A f \in DOMAIN ret[c].table : ret[c].table[f] >= prev[c].table[f]

\* ---------------------------------------------------------------- C8
\* The table recorded in quiet for target t.
QuietTable(t) == (CHOOSE q \in quiet : q.target = t).table

\* Since the last counter change, get() and get(p) for every p below
\* count() have run.
QuietComplete ==
    \A t \in (0 - 1)..(nr_cpu_ids - 1) : \E q \in quiet : q.target = t

\* Sum over the CPUs below n of get(p).f, in the integers.
RECURSIVE SumOfGets(_, _)
SumOfGets(f, n) ==
    IF n = 0 THEN 0 ELSE SumOfGets(f, n - 1) + QuietTable(n - 1)[f]

\* Sum over the CPUs below n of get(p).f, as the Lua caller adds integers.
RECURSIVE LuaSumOfGets(_, _)
LuaSumOfGets(f, n) ==
    IF n = 0 THEN 0 ELSE LuaAdd(LuaSumOfGets(f, n - 1), QuietTable(n - 1)[f])

\* C8 as stated: on a quiescent system the sum of get(p).f over all p below
\* count() equals get().f.
C8_SumEqualsAggregate ==
    QuietComplete =>
        \A f \in ExpectedKeys : SumOfGets(f, nr_cpu_ids) = QuietTable(0 - 1)[f]

\* C8 as amended: on a quiescent system the sum of get(p).f over all p below
\* count(), taken modulo 2^64 as the runtime's integer addition does, equals
\* get().f.
C8_WrappedSumEqualsAggregate ==
    QuietComplete =>
        \A f \in ExpectedKeys : LuaSumOfGets(f, nr_cpu_ids) = QuietTable(0 - 1)[f]

\* get() and every get(p) have run with no counter change on a system of
\* several CPUs, one of them offline, and some field's sum has wrapped.
C8_Witness ==
    /\ QuietComplete
    /\ nr_cpu_ids > 1
    /\ cpu_online_mask # cpu_possible_mask
    /\ \E f \in ExpectedKeys : SumOfGets(f, nr_cpu_ids) # QuietTable(0 - 1)[f]

\* ---------------------------------------------------------------- C9
\* A step of a call: a call begins, advances or returns.
CallStep == ncalls' # ncalls \/ pc' # pc \/ i' # i \/ ret' # ret

\* C9: no step of get or count changes a counter, the online mask, the
\* registry's build option or the processor count; and calls keep no state:
\* with unchanged counters, gets of the same target return equal tables.
C9_ReadOnlyStateless ==
    /\ [][CallStep => UNCHANGED kernel]_vars
    /\ [](\A q1 \in quiet, q2 \in quiet : q1.target = q2.target => q1 = q2)

\* A caller has called count() and then get() twice in a row, with no
\* counter change since the first get began.
C9_Witness ==
    \E c \in Callers :
        /\ Undisturbed(c)
        /\ ncalls[c] = 3
        /\ ret[c].kind = "table" /\ prev[c].kind = "table"
        /\ ret[c].target = 0 - 1 /\ prev[c].target = 0 - 1
        /\ nr_cpu_ids > 1
        /\ nticks = 0

\* ---------------------------------------------------------------- C10
\* C10: count() returns the number of possible CPU slots, which is positive,
\* is not changed by any step (counter update, hotplug or call), and is the
\* bound of get's range check: get(p) with p >= 0 raises iff p >= count().
C10_CountIsTheBound ==
    /\ [][CountValue' = CountValue]_vars
    /\ [](\A c \in Callers :
            /\ ret[c].kind = "count" =>
                 /\ ret[c].value = Cardinality(cpu_possible_mask)
                 /\ ret[c].value > 0
            /\ (GotGetOf(c) /\ ret[c].args[1] \in 0..(IntHalf - 1)) =>
                 (ret[c].kind = "error" <=> ret[c].args[1] >= CountValue))

\* count() has returned after a counter update and a CPU going offline.
C10_Witness ==
    \E c \in Callers :
        /\ ret[c].kind = "count"
        /\ nticks > 0
        /\ cpu_online_mask # cpu_possible_mask

\* ---------------------------------------------------------------- C11
\* Sum modulo 2^64 of counter k over the first n structures caller c read.
RECURSIVE SeenSum(_, _, _)
SeenSum(c, k, n) ==
    IF n = 0 THEN 0 ELSE U64Add(SeenSum(c, k, n - 1), seen[c][n].cpustat[k])

\* The reads of caller c are those of its call run alone: the CPUs the call
\* addresses, in the order of for_each_possible_cpu, each with counters the
\* CPU held at some moment up to now.
SoloReads(c) ==
    /\ \A n \in 1..Len(seen[c]) :
          /\ seen[c][n].cpu \in cpu_possible_mask
          /\ \A k \in StatIdx : seen[c][n].cpustat[k] <= kcpustat[seen[c][n].cpu][k]
    /\ pc[c] = "sum" =>
          /\ Len(seen[c]) = i[c]
          /\ \A n \in 1..Len(seen[c]) : seen[c][n].cpu = n - 1
    /\ (pc[c] = "idle" /\ ret[c].kind = "table") =>
          IF ret[c].target >= 0
          THEN Len(seen[c]) = 1 /\ seen[c][1].cpu = ret[c].target
          ELSE /\ Len(seen[c]) = nr_cpu_ids
               /\ \A n \in 1..Len(seen[c]) : seen[c][n].cpu = n - 1

\* C11: under any interleaving of callers and counter updates, a call in
\* progress holds in its own accumulator the sum of what it read itself, and a
\* returned table holds, for every field, the sum modulo 2^64 of the counters
\* that call read itself - the result of the call run alone against the same
\* counter updates - with nothing accumulated by another caller.
C11_CallersDoNotInterfere ==
    \A c \in Callers :
        /\ SoloReads(c)
        /\ pc[c] = "sum" =>
              \A k \in StatIdx : stats[c][k] = SeenSum(c, k, Len(seen[c]))
        /\ (pc[c] = "idle" /\ ret[c].kind = "table") =>
              \A n \in 1..Len(ExpectedFields) :
                 /\ ExpectedFields[n].name \in DOMAIN ret[c].table
                 /\ ret[c].table[ExpectedFields[n].name]
                      = ToLuaInteger(SeenSum(c, ExpectedFields[n].index, Len(seen[c])))

\* Two aggregate calls have overlapped and returned: one caller read CPU 0
\* before the other did, and CPU 1 after the other did, with a counter update
\* between each pair of reads.
C11_Witness ==
    \E c1 \in Callers, c2 \in Callers :
        /\ c1 # c2
        /\ pc[c1] = "idle" /\ pc[c2] = "idle"
        /\ ret[c1].kind = "table" /\ ret[c1].target = 0 - 1
        /\ ret[c2].kind = "table" /\ ret[c2].target = 0 - 1
        /\ nr_cpu_ids > 1
        /\ seen[c1][1].cpustat[CPUTIME_USER] < seen[c2][1].cpustat[CPUTIME_USER]
        /\ seen[c2][2].cpustat[CPUTIME_USER] < seen[c1][2].cpustat[CPUTIME_USER]

\* ---------------------------------------------------------------- C12
\* Caller c's last completed call was an aggregate get that returned.
GotAggregate(c) ==
    pc[c] = "idle" /\ ret[c].kind = "table" /\ ret[c].target = 0 - 1

\* The value caller c's aggregate returned for the n-th field lies between
\* the true sum of that field when the call started and the present one.
BetweenSums(c, n) ==
    /\ start[c][ExpectedFields[n].index] <= ret[c].table[ExpectedFields[n].name]
    /\ ret[c].table[ExpectedFields[n].name]
         <= TrueSum(ExpectedFields[n].index, nr_cpu_ids)

\* C12: counters only increase (Tick); for every field f whose sum over the
\* possible CPUs does not overflow the u64, an aggregate get interleaved with
\* counter updates returns a value v with S_start(f) <= v <= S_end(f), the
\* true sums of f when the call started and when it returned.  In the state
\* in which the call returns S_end is the present sum, and later sums are no
\* smaller.
C12_AggregateBetweenSums ==
    \A c \in Callers :
        GotAggregate(c) =>
            \A n \in 1..Len(ExpectedFields) :
                TrueSum(ExpectedFields[n].index, nr_cpu_ids) < U64Mod
                    => BetweenSums(c, n)

\* The bound of C12 for the fields whose sum stays below 2^63, where the
\* value pushed is the sum the call accumulated.
C12_BetweenSumsBelowSignBit ==
    \A c \in Callers :
        GotAggregate(c) =>
            \A n \in 1..Len(ExpectedFields) :
                TrueSum(ExpectedFields[n].index, nr_cpu_ids) < LuaHalf
                    => BetweenSums(c, n)

\* An aggregate get has just returned a user value strictly between the sums
\* at its start and at its return: one update came after its read of that
\* CPU, another before its read of the other CPU.
C12_StrictlyBetween ==
    \E c \in Callers :
        /\ GotAggregate(c)
        /\ nr_cpu_ids > 1
        /\ TrueSum(CPUTIME_USER, nr_cpu_ids) < LuaHalf
        /\ start[c][CPUTIME_USER] < ret[c].table[<<117, 115, 101, 114>>]
        /\ ret[c].table[<<117, 115, 101, 114>>] < TrueSum(CPUTIME_USER, nr_cpu_ids)
        /\ TrueSum(CPUTIME_USER, nr_cpu_ids) = start[c][CPUTIME_USER] + nticks

\* An aggregate get has returned a negative value for a field whose sum did
\* not overflow, on a system of several CPUs, after an update during the call.
C12_NegativeWithoutOverflow ==
    \E c \in Callers :
        /\ GotAggregate(c)
        /\ nr_cpu_ids > 1
        /\ dirty[c]
        /\ \E n \in 1..Len(ExpectedFields) :
              /\ TrueSum(ExpectedFields[n].index, nr_cpu_ids) < U64Mod
              /\ ret[c].table[ExpectedFields[n].name] < 0

\* ---------------------------------------------------------------- C13
\* C13: for every argument list and every content of the counters, the
\* registry-driven get and the variant with one statement per field produce
\* the same outcome: the same error (same index and same max), or tables
\* that agree on the ten fields user .. guest_nice, the registry-driven one
\* having forceidle in addition exactly under CONFIG_SCHED_CORE.
C13_SameAsHardcoded ==
    \A c \in Callers :
        (GotGet(c) /\ Undisturbed(c)) =>
            LET old == HardcodedGet(ret[c].args)
            IN  /\ old.kind = ret[c].kind
                /\ old.kind = "error" =>
                      /\ old.cpu = ret[c].cpu
                      /\ old.max = ret[c].max
                /\ old.kind = "table" =>
                      /\ Cardinality(DOMAIN old.table) = 10
                      /\ \A f \in DOMAIN old.table :
                            /\ f \in DOMAIN ret[c].table
                            /\ ret[c].table[f] = old.table[f]
                      /\ (DOMAIN ret[c].table) \ (DOMAIN old.table)
                            = IF sched_core THEN {ForceidleField[1].name} ELSE {}

\* The registry-driven get has returned the counters of the last CPU of a
\* multi-processor system on a build with the forced-idle row, after the
\* counters were updated, with irq and softirq values that differ.
C13_Witness ==
    \E c \in Callers :
        /\ Undisturbed(c)
        /\ ret[c].kind = "table"
        /\ nr_cpu_ids > 1
        /\ ret[c].target = nr_cpu_ids - 1
        /\ sched_core
        /\ nticks > 0
        /\ ret[c].table[<<105, 114, 113>>] # ret[c].table[<<115, 111, 102, 116, 105, 114, 113>>]

====
